---- MODULE Spec2Model ----
(***************************************************************************)
(* Model of the passkey (OAuth2 authorization code + PKCE) handshake of    *)
(* src/src/lib/index.ts (getUser, passkeyAuth, authExchange, logout) and   *)
(* of the callback page src/unnamed/part_000 (Login).                      *)
(*                                                                         *)
(* redirect() of @solidjs/router builds and RETURNS a Response; it does    *)
(* not throw.  A call whose value is neither returned nor thrown therefore *)
(* has no effect on control flow, and the model follows the code there.    *)
(***************************************************************************)
EXTENDS Naturals, FiniteSets, Sequences, Bags, TLC

VARIABLES
  session,      \* session.data: state_value, code_verifier, userId
  page,         \* the callback page (Login component) open in the user agent
  inflight,     \* the invocations of the operations that have not returned
  last          \* history: the most recently returned operation, what it met
                \* and what it handed back

vars == << session, page, inflight, last >>

----------------------------------------------------------------------------
(* Values *)

\* A property that is absent (JavaScript undefined)
Undefined == "undefined"

\* Outputs of randomBytes(32).toString('base64url'): 43 characters each
NonceTable ==
  << "JTA7RlFcZ3J9iJOeqbS_ytXg6_YBDBciLThDTllkb3o",
     "SlVga3aBjJeirbjDztnk7_oFEBsmMTxHUl1oc36JlJ8" >>

\* The values randomBytes(32).toString('base64url') can return in the model
Nonces == { NonceTable[i] : i \in DOMAIN NonceTable }

\* createHash('sha256').update(codeVerifier).digest().toString('base64url')
DeriveChallenge(codeVerifier) ==
  CASE codeVerifier = NonceTable[1] -> "QctC0aMtVpUcO7kYiZnV30W4rPYYHWwh8Emr4kFLq2I"
    [] codeVerifier = NonceTable[2] -> "UuzeuYZuRxDpy7VTkeC7r8WFduuhoykWs0PDWLcqPjs"

\* Authorization codes the provider may hand to the callback
Codes == { "ABC" }

\* How the fetch of the token endpoint can settle: it resolves with an answer
\* of 2xx status or of another status, or it rejects
Responses == { "ok", "non2xx", "neterr" }

\* How tokenResp.json() can settle: it resolves, or it rejects on a body that
\* is no JSON
Bodies == { "json", "badjson" }

\* Invocations of the operations that may be in flight together
MaxInflight == 2

\* Calls of authExchange one arrival at the callback page may make

\* Arrivals of the user agent at the callback page
MaxArrivals == 1

\* Outcomes of db.user.findUnique
Lookups == { "found", "absent", "error" }

----------------------------------------------------------------------------
(* Session data and the session interface of ./server *)

\* session.data of a session nothing was written to
EmptySession ==
  [ state_value |-> Undefined, code_verifier |-> Undefined, userId |-> Undefined ]

\* The mutator passkeyAuth hands to session.update
PasskeyAuthMutatorStateOnly(sess, randomState, codeVerifier) ==
  [ sess EXCEPT !.state_value = randomState ]

PasskeyAuthMutator(sess, randomState, codeVerifier) ==
  [ sess EXCEPT !.state_value = randomState, !.code_verifier = codeVerifier ]

\* logoutSession() of ./server: the session is destroyed
LogoutSession(sess) == EmptySession

----------------------------------------------------------------------------
(* What an operation hands back *)

NoLocation ==
  [ path |-> "", response_type |-> "", scope |-> "", state |-> "",
    code_challenge_method |-> "", code_challenge |-> "" ]

\* A location inside the application
AppPath(p) == [ NoLocation EXCEPT !.path = p ]

\* The authorize URL passkeyAuth builds
AuthURI(randomState, codeChallenge) ==
  [ path |-> "https://auth-us.beyondidentity.com/authorize",
    response_type |-> "code", scope |-> "openid", state |-> randomState,
    code_challenge_method |-> "S256", code_challenge |-> codeChallenge ]

\* return redirect(url)
ReturnRedirect(loc) == [ kind |-> "redirect", location |-> loc ]
\* throw redirect(url)
ThrowRedirect(loc) == [ kind |-> "throw_redirect", location |-> loc ]
\* return err as Error
ReturnError == [ kind |-> "error", location |-> NoLocation ]
\* the function ends without a return statement taking effect
ReturnUndefined == [ kind |-> "undefined", location |-> NoLocation ]
\* an await outside any try block rejects: the function throws that error
ThrowError == [ kind |-> "throw_error", location |-> NoLocation ]
\* return { id, username }
ReturnUser == [ kind |-> "user", location |-> NoLocation ]
\* the function is still awaiting and has handed nothing back
NotReturned == [ kind |-> "none", location |-> NoLocation ]

\* No POST to the token endpoint
NoFetch == [ sent |-> FALSE, code |-> "", code_verifier |-> "" ]

\* The POST authExchange sends to the token endpoint: the fields of its body
\* that vary (grant_type and redirect_uri are fixed)
TokenRequest(code, codeVerifier) ==
  [ sent |-> TRUE, code |-> code, code_verifier |-> codeVerifier ]

\* The record of an invocation of an operation from its call on: at is the
\* await it is suspended at, or "resume" when the session store has acted for
\* it and it has not been resumed, or "returned"; state and code_verifier
\* are the nonces passkeyAuth generated, code and state the arguments of
\* authExchange; sessionOk, lookup and resp tell how the collaborators it
\* reached answered; result is what it handed back.  For passkeyAuth, over is
\* the state_value its update wrote over.  For authExchange, here is whether
\* the page that called it is still the one open, mismatch whether it logged
\* "Session is not in an auth-ready state", fetch the POST it sent.
Invoked(op, at) ==
  [ op |-> op, at |-> at, here |-> FALSE, code |-> "", state |-> "",
    code_verifier |-> "", over |-> "", sessionOk |-> FALSE, lookup |-> "",
    mismatch |-> FALSE, fetch |-> NoFetch, resp |-> "", result |-> NotReturned ]

\* The invocation e once it has handed back result
Returned(e, result) == [ e EXCEPT !.at = "returned", !.result = result ]

Pending(sess) == sess.state_value # Undefined

\* The pending pair of the session
Pair(sess) == << sess.state_value, sess.code_verifier >>

\* The invocations in flight with one more, with one fewer, and with one
\* having moved on
Add(bag, e) == bag (+) SetToBag({ e })
Remove(bag, e) == bag (-) SetToBag({ e })
Move(bag, d, e) == Add(Remove(bag, d), e)

\* The invocations of op in flight
Awaiting(op, at) == { e \in DOMAIN inflight : e.op = op /\ e.at = at }

----------------------------------------------------------------------------
(* Initial state: a fresh session, no page, nothing run *)

\* lookups and posts count the getSession calls and the POSTs made by
\* authExchange on behalf of the page, arrivals the pages entered so far
NoPage ==
  [ open |-> FALSE, code |-> Undefined, state |-> Undefined, malformed |-> FALSE,
    mounted |-> FALSE, lookups |-> 0, posts |-> 0, arrivals |-> 0 ]

Init ==
  /\ session = EmptySession
  /\ page = NoPage
  /\ inflight = EmptyBag
  /\ last = Returned(Invoked("none", ""), ReturnUndefined)

\* An operation is called: it runs to its first await
Call(e) ==
  /\ BagCardinality(inflight) < MaxInflight
  /\ inflight' = Add(inflight, e)

\* The invocation d returns or throws: it is no longer in flight, and e, which
\* is d with what it met in this step, is on record with what it handed back
Return(d, e, result) ==
  /\ inflight' = Remove(inflight, d)
  /\ last' = Returned(e, result)

----------------------------------------------------------------------------
(* logoutSession of ./server, awaited by getUser and by logout *)

\* logoutSession settles for an invocation awaiting it: the session has been
\* destroyed, the invocation is yet to be resumed; or logoutSession rejects,
\* and the invocation, which awaits it outside any try block, throws the error
LogoutSessionSettles ==
  \E e \in Awaiting("getUser", "logoutSession") \cup Awaiting("logout", "logoutSession"),
     logoutOk \in BOOLEAN :
    IF logoutOk
      THEN /\ session' = LogoutSession(session)
           /\ inflight' = Move(inflight, e, [ e EXCEPT !.at = "resume" ])
           /\ UNCHANGED << page, last >>
      ELSE /\ Return(e, e, ThrowError)
           /\ UNCHANGED << session, page >>

----------------------------------------------------------------------------
(* getUser *)

\* Whether the try block of getUser goes on to db.user.findUnique
GetUserFound(sess, sessionOk) == sessionOk /\ sess.userId # Undefined

\* getUser() is called: it calls getSession and is suspended at that await
GetUser ==
  /\ Call(Invoked("getUser", "getSession"))
  /\ UNCHANGED << session, page, last >>

\* How the await an invocation of getUser is suspended at can settle:
\* getSession resolves or rejects, findUnique answers as Lookups tells
GetUserSettles(e) == IF e.at = "getSession" THEN BOOLEAN ELSE Lookups

\* The await of the try block that an invocation of getUser is suspended at
\* settles.  getSession: when it rejects or the session holds no userId the
\* catch block calls logoutSession, otherwise db.user.findUnique is called.
\* findUnique: a user is returned, or (no record, or it rejects) the catch
\* block calls logoutSession.
GetUserTry ==
  \E e \in Awaiting("getUser", "getSession") \cup Awaiting("getUser", "findUnique") :
    \E settled \in GetUserSettles(e) :
      IF e.at = "getSession"
        THEN /\ inflight' =
                  Move(inflight, e,
                       [ e EXCEPT !.sessionOk = settled,
                                  !.at = IF GetUserFound(session, settled)
                                           THEN "findUnique" ELSE "logoutSession" ])
             /\ UNCHANGED << session, page, last >>
        ELSE IF settled = "found"
               THEN /\ Return(e, [ e EXCEPT !.lookup = settled ], ReturnUser)
                    /\ UNCHANGED << session, page >>
               ELSE /\ inflight' = Move(inflight, e, [ e EXCEPT !.lookup = settled,
                                                                !.at = "logoutSession" ])
                    /\ UNCHANGED << session, page, last >>

\* An invocation of getUser whose logoutSession has resolved is resumed in
\* its catch block: throw redirect("/login")
GetUserThrow ==
  \E e \in Awaiting("getUser", "resume") :
    /\ Return(e, e, ThrowRedirect(AppPath("/login")))
    /\ UNCHANGED << session, page >>

----------------------------------------------------------------------------
(* passkeyAuth *)

\* What passkeyAuth returns: the caught error, or the redirect to authURI
PasskeyAuthResultAlwaysRedirect(sessionOk, authURI) == ReturnRedirect(authURI)

PasskeyAuthResult(sessionOk, authURI) ==
  IF sessionOk THEN ReturnRedirect(authURI) ELSE ReturnError

\* The challenge placed in authURI for the generated verifier
PasskeyAuthChallengeOfState(randomState, codeVerifier) == DeriveChallenge(randomState)

PasskeyAuthChallengePlain(randomState, codeVerifier) == codeVerifier

PasskeyAuthChallenge(randomState, codeVerifier) == DeriveChallenge(codeVerifier)

\* The authURI an invocation of passkeyAuth built from its nonces
PasskeyAuthURI(e) ==
  AuthURI(e.state, PasskeyAuthChallenge(e.state, e.code_verifier))

\* passkeyAuth() is called: it generates its nonces, builds authURI, calls
\* getSession and is suspended at that await
PasskeyAuth ==
  \E randomState \in Nonces, codeVerifier \in Nonces :
    /\ Call([ Invoked("passkeyAuth", "getSession") EXCEPT
                !.state = randomState, !.code_verifier = codeVerifier ])
    /\ UNCHANGED << session, page, last >>

\* getSession settles for an invocation of passkeyAuth: when it rejects the
\* catch block returns the error, otherwise session.update is called
PasskeyAuthGetSession ==
  \E e \in Awaiting("passkeyAuth", "getSession"), sessionOk \in BOOLEAN :
    IF sessionOk
      THEN /\ inflight' = Move(inflight, e, [ e EXCEPT !.at = "update" ])
           /\ UNCHANGED << session, page, last >>
      ELSE /\ Return(e, e, PasskeyAuthResult(FALSE, PasskeyAuthURI(e)))
           /\ UNCHANGED << session, page >>

\* session.update settles for an invocation of passkeyAuth: the mutator has
\* been applied to the session, the invocation is yet to be resumed; or update
\* rejects, nothing is written and the catch block returns the error
PasskeyAuthUpdate ==
  \E e \in Awaiting("passkeyAuth", "update"), updateOk \in BOOLEAN :
    IF updateOk
      THEN /\ session' = PasskeyAuthMutator(session, e.state, e.code_verifier)
           /\ inflight' = Move(inflight, e, [ e EXCEPT !.at = "resume",
                                                       !.sessionOk = TRUE,
                                                       !.over = session.state_value ])
           /\ UNCHANGED << page, last >>
      ELSE /\ Return(e, e, PasskeyAuthResult(FALSE, PasskeyAuthURI(e)))
           /\ UNCHANGED << session, page >>

\* An invocation of passkeyAuth whose update has resolved is resumed:
\* return redirect(authURI)
PasskeyAuthReturn ==
  \E e \in Awaiting("passkeyAuth", "resume") :
    /\ Return(e, e, PasskeyAuthResult(TRUE, PasskeyAuthURI(e)))
    /\ UNCHANGED << session, page >>

----------------------------------------------------------------------------
(* logout *)

\* logout() is called: it calls logoutSession and is suspended at that await
Logout ==
  /\ Call(Invoked("logout", "logoutSession"))
  /\ UNCHANGED << session, page, last >>

\* An invocation of logout whose logoutSession has resolved is resumed:
\* return redirect("/login")
LogoutReturn ==
  \E e \in Awaiting("logout", "resume") :
    /\ Return(e, e, ReturnRedirect(AppPath("/login")))
    /\ UNCHANGED << session, page >>

----------------------------------------------------------------------------
(* The callback page: Login *)

\* !params.x
Falsy(param) == param = Undefined \/ param = ""

\* params.x || ""
OrEmpty(param) == IF Falsy(param) THEN "" ELSE param

\* The test at the top of Login
Malformed(code, state) == Falsy(code) \/ Falsy(state)

\* An invocation once the page that called it has been left
Left(e) == [ e EXCEPT !.here = FALSE ]

\* The invocations in flight once the page has been left: they go on
LeftBehind(bag) ==
  LET count(e) == IF e \in DOMAIN bag THEN bag[e] ELSE 0
  IN [ e \in { Left(d) : d \in DOMAIN bag } |->
         count(e) + count([ e EXCEPT !.here = TRUE ]) ]

\* The user agent arrives at the callback page with the given query
\* parameters and Login runs.  On malformed parameters it logs "The
\* authentication response was malformed..." and builds a redirect("/") whose
\* value it drops: the page is set up in either case.
EnterCallback ==
  \E code \in Codes \cup { Undefined }, state \in Nonces \cup { Undefined } :
    /\ page.arrivals < MaxArrivals
    /\ page' = [ open |-> TRUE, code |-> code, state |-> state,
                 malformed |-> Malformed(code, state),
                 mounted |-> FALSE, lookups |-> 0, posts |-> 0,
                 arrivals |-> page.arrivals + 1 ]
    /\ inflight' = LeftBehind(inflight)
    /\ UNCHANGED << session, last >>

----------------------------------------------------------------------------
(* authExchange *)

\* The test that guards the log "Session is not in an auth-ready state"
StateMismatch(sessionState, state) == sessionState # state

\* The session after the catch block of authExchange
AuthExchangeCatchClears(sess) == EmptySession

AuthExchangeCatch(sess) == sess

\* The session after the try block of authExchange has run to its end
AuthExchangeDoneSetsUser(sess) == [ sess EXCEPT !.userId = "user1" ]

AuthExchangeDoneClearsPair(sess) ==
  [ sess EXCEPT !.state_value = Undefined, !.code_verifier = Undefined ]

AuthExchangeDone(sess) == sess

\* Whether the try block of authExchange throws once fetch has been called:
\* fetch rejects on a network error, tokenResp.json() on a body that is no JSON
FetchThrows(resp) == resp \in { "neterr", "badjson" }

\* What the invocation has met once tokenResp.json() has settled
Parsed(resp, body) == IF body = "badjson" THEN "badjson" ELSE resp

\* What authExchange returns: the caught error, or nothing, the value of the
\* closing redirect("/") being dropped
AuthExchangeResult(sessionOk, resp) ==
  IF ~sessionOk \/ FetchThrows(resp) THEN ReturnError ELSE ReturnUndefined

\* The page once its onMount callback has called authExchange
Triggered(pg) == [ pg EXCEPT !.mounted = TRUE, !.lookups = @ + 1 ]

\* The page once an authExchange called by it has sent its POST
Posted(pg) == [ pg EXCEPT !.posts = @ + 1 ]

\* authExchange(code, state) is called by the page: it calls getSession and
\* is suspended at that await; the caller does not wait
AuthExchange(code, state) ==
  /\ Call([ Invoked("authExchange", "getSession") EXCEPT
              !.here = TRUE, !.code = code, !.state = state ])
  /\ page' = Triggered(page)
  /\ UNCHANGED << session, last >>

\* getSession settles for an invocation of authExchange.  When it rejects the
\* catch block returns the error.  Otherwise the invocation reads the session,
\* compares the states, and, the value of redirect("/") being dropped, goes on
\* in either case to call fetch, at whose await it is suspended.
AuthExchangeGetSession ==
  \E e \in Awaiting("authExchange", "getSession"), sessionOk \in BOOLEAN :
    IF ~sessionOk
      THEN /\ session' = AuthExchangeCatch(session)
           /\ Return(e, e, AuthExchangeResult(FALSE, ""))
           /\ UNCHANGED page
      ELSE /\ inflight' =
                Move(inflight, e,
                     [ e EXCEPT !.at = "fetch",
                                !.sessionOk = TRUE,
                                !.mismatch = StateMismatch(session.state_value, e.state),
                                !.fetch = TokenRequest(e.code, session.code_verifier) ])
           /\ page' = IF e.here THEN Posted(page) ELSE page
           /\ UNCHANGED << session, last >>

\* fetch settles for an invocation awaiting it.  When it rejects the catch
\* block returns the error.  Otherwise, whatever the status of the answer, the
\* invocation calls tokenResp.json(), at whose await it is suspended.
AuthExchangeFetch ==
  \E e \in Awaiting("authExchange", "fetch"), resp \in Responses :
    IF FetchThrows(resp)
      THEN /\ session' = AuthExchangeCatch(session)
           /\ Return(e, [ e EXCEPT !.resp = resp ], AuthExchangeResult(TRUE, resp))
           /\ UNCHANGED page
      ELSE /\ inflight' = Move(inflight, e, [ e EXCEPT !.at = "json", !.resp = resp ])
           /\ UNCHANGED << session, page, last >>

\* tokenResp.json() settles for an invocation awaiting it.  When it rejects
\* the catch block returns the error.  Otherwise the invocation logs the
\* token response, builds the closing redirect("/"), and returns.
AuthExchangeJson ==
  \E e \in Awaiting("authExchange", "json"), body \in Bodies :
    LET resp == Parsed(e.resp, body)
    IN /\ session' = IF FetchThrows(resp)
                       THEN AuthExchangeCatch(session)
                       ELSE AuthExchangeDone(session)
       /\ Return(e, [ e EXCEPT !.resp = resp ], AuthExchangeResult(TRUE, resp))
       /\ UNCHANGED page

\* onMount of Login: runs once when the component has mounted.  The other
\* caller of exchange, the onLoad listener of the main element, is registered
\* and never runs: load events are dispatched to the window and to elements
\* that load a resource and do not bubble, and main holds a heading only.
OnMountAtEveryRender ==
  /\ page.open
  /\ AuthExchange(OrEmpty(page.code), OrEmpty(page.state))

OnMount ==
  /\ page.open
  /\ ~page.mounted
  /\ AuthExchange(OrEmpty(page.code), OrEmpty(page.state))

----------------------------------------------------------------------------

Next ==
  \/ GetUser
  \/ GetUserTry
  \/ GetUserThrow
  \/ PasskeyAuth
  \/ PasskeyAuthGetSession
  \/ PasskeyAuthUpdate
  \/ PasskeyAuthReturn
  \/ Logout
  \/ LogoutReturn
  \/ LogoutSessionSettles
  \/ EnterCallback
  \/ OnMount
  \/ AuthExchangeGetSession
  \/ AuthExchangeFetch
  \/ AuthExchangeJson

Spec == Init /\ [][Next]_vars

----------------------------------------------------------------------------
(* Properties *)

Results ==
  { ReturnError, ReturnUndefined, ReturnUser, ThrowError, NotReturned,
    ReturnRedirect(AppPath("/login")), ThrowRedirect(AppPath("/login")) }
    \cup { ReturnRedirect(AuthURI(s, DeriveChallenge(v))) : s, v \in Nonces }

TypeOK ==
  /\ session \in [ state_value : Nonces \cup { Undefined },
                   code_verifier : Nonces \cup { Undefined },
                   userId : { Undefined } ]
  /\ page.lookups \in 0..1 /\ page.posts \in 0..page.lookups
  /\ page.arrivals \in 0..MaxArrivals
  /\ IsABag(inflight) /\ BagCardinality(inflight) <= MaxInflight
  /\ \A e \in DOMAIN inflight :
       /\ e.op \in { "getUser", "passkeyAuth", "logout", "authExchange" }
       /\ e.at \in { "getSession", "findUnique", "logoutSession", "update",
                     "resume", "fetch", "json" }
       /\ e.result = NotReturned
  /\ last.op \in { "none", "getUser", "passkeyAuth", "logout", "authExchange" }
  /\ last.at = "returned"
  /\ last.result \in Results

\* The invocations of authExchange on record: those in flight and, when it
\* was one, the operation that returned last
Exchanges ==
  { e \in DOMAIN inflight : e.op = "authExchange" }
    \cup (IF last.op = "authExchange" THEN { last } ELSE {})

\* The invocations on record that got the session and an authorization code
Exchanging == { e \in Exchanges : e.sessionOk /\ e.code \in Codes }

\* The last operation to return was an authExchange that got the session
ExchangeRan == last.op = "authExchange" /\ last.sessionOk

\* The last operation to return was an authExchange of an authorization code
\* whose state matched the session's and to which the provider answered with
\* a token response
ExchangeSucceeded ==
  /\ ExchangeRan
  /\ last.code \in Codes
  /\ ~last.mismatch
  /\ last.fetch.sent
  /\ last.resp = "ok"

\* A step in which an invocation of op returns or throws
Returning(op) ==
  /\ BagCardinality(inflight') < BagCardinality(inflight)
  /\ last'.op = op

\* A step in which the invocation d moves on and becomes e
Moves(d, e) == d # e /\ inflight' = Move(inflight, d, e)

\* A step in which an invocation of authExchange sends its POST
Sends(d, e) ==
  /\ d.op = "authExchange" /\ d.at = "getSession" /\ e.at = "fetch"
  /\ Moves(d, e)

\* A step in which the update of an invocation of passkeyAuth is applied
Writes(d, e) ==
  /\ d.op = "passkeyAuth" /\ d.at = "update" /\ e.at = "resume"
  /\ Moves(d, e)

\* A step in which the logoutSession of an invocation of op destroys the
\* session
Destroys(op, d, e) ==
  /\ d.op = op /\ d.at = "logoutSession" /\ e.at = "resume"
  /\ Moves(d, e)

\* A step of an invocation of authExchange: it is called, or one of its
\* awaits settles
ExchangeStep ==
  \E e \in DOMAIN inflight \cup DOMAIN inflight' :
    /\ e.op = "authExchange"
    /\ CopiesIn(e, inflight') # CopiesIn(e, inflight)

\* C1: an authExchange whose state differs from the session's state_value
\* (an absent state_value included) sends no request to the token endpoint.
C1_MismatchSendsNoTokenRequest ==
  \A e \in Exchanges : (e.sessionOk /\ e.mismatch) => ~e.fetch.sent

\* C2: for a callback page entered without code or without state, authExchange
\* reaches neither getSession nor the token endpoint.
C2_MalformedCallbackReachesNothing ==
  (page.open /\ page.malformed) => (page.lookups = 0 /\ page.posts = 0)

\* C3: when an authExchange with a matching state and a token response from
\* the provider returns, the session holds a userId.
C3_SuccessfulExchangeSetsUserId ==
  [][ (Returning("authExchange") /\ ExchangeSucceeded') =>
        session'.userId # Undefined ]_vars

\* C4: when a successful token exchange returns, the state_value and
\* code_verifier it consumed are cleared from the session, so the pair cannot
\* be used again.
C4_SuccessfulExchangeClearsPair ==
  [][ (Returning("authExchange") /\ ExchangeSucceeded'
         /\ session.state_value = last'.state) =>
        /\ session'.state_value = Undefined
        /\ session'.code_verifier = Undefined ]_vars

\* C5: when getSession or the session update of passkeyAuth fails, passkeyAuth
\* returns the error and no redirect; it returns a redirect to the
\* authorization URL only when its update has stored in the session the state
\* that URL carries, and a code_verifier.
C5_NoRedirectUnlessPersisted ==
  /\ [] ( last.op = "passkeyAuth" =>
            /\ ~last.sessionOk => last.result = ReturnError
            /\ last.result.kind = "redirect" =>
                 /\ last.sessionOk
                 /\ last.result.location.state = last.state )
  /\ [][ \A d \in DOMAIN inflight, e \in DOMAIN inflight' :
           (d.op = "passkeyAuth" /\ Moves(d, e) /\ e.sessionOk) =>
             /\ session'.state_value = d.state
             /\ session'.code_verifier = d.code_verifier
             /\ session'.code_verifier \in Nonces ]_vars

C5_Witness ==
  /\ last.op = "passkeyAuth"
  /\ ~last.sessionOk
  /\ last.result.kind = "error"
  /\ session = EmptySession

\* C6 as stated: when a passkeyAuth returns its redirect, the state of the
\* authorization URL is the session's state_value and its code_challenge is
\* the SHA-256 challenge of the session's code_verifier, with
\* code_challenge_method S256.
C6_UrlMatchesSession ==
  [][ (Returning("passkeyAuth") /\ last'.result.kind = "redirect") =>
        /\ Pending(session')
        /\ last'.result.location.state = session'.state_value
        /\ last'.result.location.code_challenge = DeriveChallenge(session'.code_verifier)
        /\ last'.result.location.code_challenge_method = "S256" ]_vars

\* C6 as amended: when the update of a passkeyAuth is applied, the session's
\* state_value and code_verifier are the nonces of that invocation; the state
\* of the authorization URL it goes on to return is that state_value and its
\* code_challenge the SHA-256 challenge of that code_verifier, with
\* code_challenge_method S256, whatever another request has done to the
\* session between the update and the return.
C6_UrlMatchesPairWritten ==
  /\ [] ( (last.op = "passkeyAuth" /\ last.result.kind = "redirect") =>
            /\ last.result.location.state = last.state
            /\ last.result.location.code_challenge = DeriveChallenge(last.code_verifier)
            /\ last.result.location.code_challenge_method = "S256" )
  /\ [][ \A d \in DOMAIN inflight, e \in DOMAIN inflight' :
           Writes(d, e) => Pair(session') = << d.state, d.code_verifier >> ]_vars

\* A passkeyAuth has returned its redirect over a session that a later
\* passkeyAuth has written
C6_Witness ==
  /\ last.op = "passkeyAuth"
  /\ last.result.kind = "redirect"
  /\ last.state # last.code_verifier
  /\ Pending(session)
  /\ session.state_value # last.state
  /\ last.result.location.code_challenge = DeriveChallenge(last.code_verifier)

\* C7: a second passkeyAuth overwrites the pair of the first, and afterwards a
\* callback echoing the first, overwritten state is rejected: it sends no
\* request to the token endpoint.
C7_OverwrittenStateRejected ==
  [][ \A d \in DOMAIN inflight, e \in DOMAIN inflight' :
        /\ (Writes(d, e) /\ Pending(session)) =>
             /\ Pair(session') = << d.state, d.code_verifier >>
             /\ e.over = session.state_value
        /\ (d.code \in Codes /\ last.op = "passkeyAuth"
              /\ last.result.kind = "redirect" /\ last.over = d.state
              /\ session.state_value = last.state
              /\ d.state # session.state_value) =>
             ~Sends(d, e) ]_vars

\* C8: whenever getUser fails (the session cannot be read, it holds no userId,
\* or the user store has no record or fails), its logoutSession destroys the
\* session and only then does it throw, a redirect to /login; no user is
\* returned.
C8_FailedGetUserDestroysSession ==
  [][ /\ \A d \in DOMAIN inflight, e \in DOMAIN inflight' :
           Destroys("getUser", d, e) => session' = EmptySession
      /\ (Returning("getUser") /\ last'.result.kind # "user") =>
           /\ last'.result = ThrowRedirect(AppPath("/login"))
           /\ \E d \in Awaiting("getUser", "resume") :
                inflight' = Remove(inflight, d) ]_vars

\* C9: an authExchange that does not end in a successful token exchange
\* (session unreadable, state mismatch, network error, provider failure,
\* malformed response) leaves state_value, code_verifier and userId as they were.
C9_FailedExchangeKeepsSession ==
  [][ (ExchangeStep /\ ~(Returning("authExchange") /\ ExchangeSucceeded')) =>
        session' = session ]_vars

C9_Witness ==
  /\ ExchangeRan
  /\ last.fetch.sent
  /\ last.resp = "neterr"
  /\ ~last.mismatch
  /\ Pair(session) = << last.state, last.fetch.code_verifier >>
  /\ session.userId = Undefined

\* C10: in every reachable state, state_value and code_verifier are both
\* present or both absent.
C10_PairPresentTogether ==
  (session.state_value = Undefined) <=> (session.code_verifier = Undefined)

C10_Witness ==
  /\ last.op = "passkeyAuth"
  /\ last.over \in Nonces
  /\ session.state_value \in Nonces
  /\ session.code_verifier \in Nonces
  /\ \E e \in DOMAIN inflight : e.op = "passkeyAuth" /\ e.at = "resume"

\* C11: userId is set only by a token exchange whose callback state matched
\* the session's state_value; no other operation (initiation, rejected
\* callback, failed exchange, getUser, logout) sets it.
C11_UserIdOnlyFromMatchingExchange ==
  [][ ~(Returning("authExchange") /\ ExchangeSucceeded') =>
        (session'.userId = Undefined \/ session'.userId = session.userId) ]_vars

C11_Witness ==
  /\ ExchangeRan
  /\ last.mismatch
  /\ last.state \in Nonces
  /\ last.fetch.sent
  /\ last.resp = "ok"
  /\ Pending(session)
  /\ session.userId = Undefined

\* C12: when authExchange completes a token exchange successfully, what it
\* hands back is a redirect to the main entry point "/".
C12_SuccessfulExchangeRedirectsHome ==
  ExchangeSucceeded => last.result = ReturnRedirect(AppPath("/"))

\* An error was caught in the last authExchange: getSession threw, fetch
\* rejected, or tokenResp.json() threw
ExchangeCaughtError ==
  /\ last.op = "authExchange"
  /\ ~last.sessionOk \/ (last.fetch.sent /\ FetchThrows(last.resp))

\* C13: when an error is caught in authExchange, what is handed back is a
\* redirect to the main entry point or to login, never the caught error.
C13_CaughtErrorBecomesRedirect ==
  ExchangeCaughtError =>
    /\ last.result.kind = "redirect"
    /\ last.result.location.path \in { "/", "/login" }

\* C14: a non-2xx answer of the token endpoint ends authExchange in its error
\* path, never in the path that consumes the body as a token response.
C14_Non2xxIsFailure ==
  (ExchangeRan /\ last.code \in Codes /\ ~last.mismatch /\ last.fetch.sent
     /\ last.resp = "non2xx") =>
    last.result = ReturnError

\* C15: for one arrival of the callback page the token endpoint receives at
\* most one POST: the page calls the exchange once, and an exchange that
\* fails is not sent again.
C15_AtMostOnePostPerArrival ==
  page.posts <= 1

\* The exchange of the page open has sent its POST, failed on a network
\* error and returned; nothing is in flight
C15_Witness ==
  /\ page.open
  /\ page.mounted
  /\ page.posts = 1
  /\ ExchangeRan
  /\ last.here
  /\ last.resp = "neterr"
  /\ inflight = EmptyBag

\* C16: every token request authExchange sends carries the code_verifier
\* stored by the same initiation as the state the callback echoes: the
\* session's code_verifier is sent only for a callback echoing the state_value
\* stored with it, never for another state, an overwritten one included.
C16_VerifierOfEchoedState ==
  [][ \A d \in DOMAIN inflight, e \in DOMAIN inflight' :
        (Sends(d, e) /\ d.code \in Codes /\ e.fetch.code_verifier \in Nonces) =>
          d.state = session.state_value ]_vars

\* The values of the fields of a location
FieldValues(loc) == { loc[f] : f \in DOMAIN loc }

\* C17: the authorization URL passkeyAuth redirects to carries the state and
\* the derived code_challenge but not the code_verifier; the code_verifier is
\* sent in the token request of authExchange, which carries the one the
\* session holds when the request is made.
C17_VerifierNotInAuthorizationUrl ==
  /\ [] ( (last.op = "passkeyAuth" /\ last.result.kind = "redirect"
             /\ last.code_verifier # last.state) =>
            /\ last.code_verifier \notin FieldValues(last.result.location)
            /\ last.result.location.state = last.state
            /\ last.result.location.code_challenge \notin Nonces )
  /\ [][ \A d \in DOMAIN inflight, e \in DOMAIN inflight' :
           Sends(d, e) =>
             e.fetch = TokenRequest(d.code, session.code_verifier) ]_vars

C17_Witness ==
  \E e \in DOMAIN inflight :
    /\ e.op = "authExchange"
    /\ e.at = "fetch"
    /\ ~e.mismatch
    /\ e.fetch.sent
    /\ e.fetch.code_verifier \in Nonces
    /\ e.fetch.code_verifier # e.state
    /\ last.op = "passkeyAuth"
    /\ last.result.kind = "redirect"
    /\ last.code_verifier = e.fetch.code_verifier

\* C18 as stated: a stored pair stays in the session unchanged until a later
\* initiation overwrites it or an explicit logout removes it; no other
\* operation changes or removes it.
C18_PairKeptUntilInitiationOrLogout ==
  [][ (Pending(session) /\ Pair(session') # Pair(session)) =>
        \E d \in DOMAIN inflight, e \in DOMAIN inflight' :
          Writes(d, e) \/ Destroys("logout", d, e) ]_vars

\* C18 as amended: a stored pair stays in the session unchanged until a later
\* initiation overwrites it, or an explicit logout or a failed getUser (which
\* logs the session out) removes it; authExchange, completed or not, and the
\* callback page never change or remove it.
C18_PairKeptUntilInitiationLogoutOrGetUser ==
  [][ (Pending(session) /\ Pair(session') # Pair(session)) =>
        \E d \in DOMAIN inflight, e \in DOMAIN inflight' :
          Writes(d, e) \/ Destroys("logout", d, e) \/ Destroys("getUser", d, e) ]_vars

\* An invocation whose fetch has not settled holds no result, and the pair it
\* met is still the session's
C18_Witness ==
  \E e \in DOMAIN inflight :
    /\ e.op = "authExchange"
    /\ e.at = "fetch"
    /\ ~e.mismatch
    /\ e.result = NotReturned
    /\ Pair(session) = << e.state, e.fetch.code_verifier >>

====
